---- MODULE Spec2Model ----
(***************************************************************************)
(* Pocket-AI-Chat: the credential store (utils/auth.py, AuthManager over a *)
(* SQLite table `auth`) and the authentication gate built on it            *)
(* (ui/auth_components.py AuthWindow, main.py ChatApp).                    *)
(*                                                                         *)
(* Strings are sequences of one-character strings, so that strip() and     *)
(* zfill() are computed and not assumed.  An Optional[Tuple] is a sequence *)
(* of zero (None) or one row.                                              *)
(***************************************************************************)
EXTENDS Integers, Sequences, FiniteSets, TLC

VARIABLES
    auth,      \* committed rows of table auth, in increasing id order
    lock,      \* the connection holding SQLite's write lock, or NoThread
    txn,       \* txn[t]: the table as seen inside t's open transaction
    pc,        \* pc[t]: position of thread / coroutine t
    cont,      \* cont[t]: where t continues when its store call returns
    arg,       \* arg[t]: (api_key, pin_code) of the save t is running
    out,       \* out[t]: what t's last store call returned and logged
    had,       \* had[t]: the committed table when t's DELETE ran
    obs,       \* the last get_credentials a caller made: what it got, what was in flight
    hist,      \* the last two writes callers committed, oldest first
    page,      \* what the page shows: the AuthWindow or the main UI
    status,    \* status_text.value of the AuthWindow on the page
    is_authenticated,  \* ChatApp.is_authenticated
    api_client,        \* the api_key ChatApp.api_client was built with
    loc,       \* loc[t]: the locals of handle_submit run by t
    loop,      \* the handle_submit coroutine the event loop is running
    stale,     \* handlers whose AuthWindow has been replaced by a new one
    alone,     \* the handler started last began with all at rest, none started since
    fails,     \* wrong PINs in a row since the window came up
    done,      \* the handler that returned last: its way out and the key it had
    drawn,     \* what secrets.randbelow(10000) returned, or NoDraw
    pin,       \* what generate_pin returned for it
    metrics_history,   \* PerformanceMonitor.metrics_history, samples by their ordinal
    samples,   \* how many samples get_metrics has taken and appended
    errors,    \* how many times get_metrics has returned the error dict
    clock,     \* what time.time() returns
    last_balance_notification,  \* PerformanceMonitor.last_balance_notification
    alerts,    \* the calls of send_low_balance_alert: the last two, oldest first
    balance_log        \* what the last check_balance_and_notify logged last

store == <<auth, lock, txn, pc, cont, arg, out, had, obs, hist>>
util == <<drawn, pin, metrics_history, samples, errors, clock,
          last_balance_notification, alerts, balance_log>>
window == <<page, status, is_authenticated, api_client, loc, loop, stale, alone, fails,
            done>>
gate == <<page, status, is_authenticated, api_client, loc, loop, stale, alone, fails,
          done, util>>
vars == <<auth, lock, txn, pc, cont, arg, out, had, obs, hist,
          page, status, is_authenticated, api_client, loc, loop, stale, alone, fails,
          done, drawn, pin, metrics_history, samples, errors, clock,
          last_balance_notification, alerts, balance_log>>

----------------------------------------------------------------------------
(* Values *)

\* two connections that use AuthManager directly, or two handle_submit
\* coroutines of the AuthWindow; and the thread that runs handle_reset
Handlers == {"t1", "t2"}
Resetter == "rst"
Threads == Handlers \cup {Resetter}
NoThread == "none"

None == <<>>
Some(row) == <<row>>

Row(k, p) == [api_key |-> k, pin_code |-> p]

\* arguments the callers of AuthManager pass in the store-level specification
StoreKeys == {<<"a">>, <<"b", " ">>}
StorePins == {<<"0", "0", "0", "7">>, <<"1", "2", "3", "4">>}

NoArg == Row(<<>>, <<>>)
\* what a store call hands back: ok is the bool of save/clear, cred the
\* Optional of get; logged says logger.error ran, at names the statement
\* that raised, raised says an exception left the method
Out(o, b, c, l, a) == [op |-> o, ok |-> b, cred |-> c, logged |-> l, at |-> a,
                       raised |-> FALSE]
NoOut == Out("none", FALSE, None, FALSE, "none")
NoObs == [cred |-> None, logged |-> FALSE, old |-> <<>>, fresh |-> FALSE]

\* wrong PINs counted up to here
MaxAttempts == 2

Last2(h, e) == IF Len(h) < 2 THEN Append(h, e) ELSE <<h[2], e>>

\* the writes and reads that obs and hist keep are those of the callers that
\* use AuthManager directly
Direct(c) == c = "idle"

----------------------------------------------------------------------------
(* Strings *)

IsSpace(c) == c = " "

RECURSIVE LStrip(_)
LStrip(s) == IF s # <<>> /\ IsSpace(Head(s)) THEN LStrip(Tail(s)) ELSE s

RECURSIVE RStrip(_)
RStrip(s) ==
    IF s # <<>> /\ IsSpace(s[Len(s)]) THEN RStrip(SubSeq(s, 1, Len(s) - 1)) ELSE s

\* str.strip()
Strip(s) == RStrip(LStrip(s))

----------------------------------------------------------------------------
(* AuthManager: the SQL statements *)

\* SELECT api_key, pin_code FROM auth ORDER BY id DESC LIMIT 1; fetchone()
\* ids are AUTOINCREMENT, so the greatest id is the row inserted last
SelectLast(tbl) == IF tbl = <<>> THEN None ELSE Some(tbl[Len(tbl)])

\* DELETE FROM auth, with a WHERE clause that matches nothing
DeleteAll_keep(tbl) == tbl

\* DELETE FROM auth
DeleteAll(tbl) == <<>>

\* INSERT that normalises the key on the way in
InsertRow_strip(tbl, k, p) == Append(tbl, Row(Strip(k), p))

\* INSERT INTO auth (api_key, pin_code) VALUES (?, ?)
InsertRow(tbl, k, p) == Append(tbl, Row(k, p))

\* return result if result else None
GetResult(tbl) == SelectLast(tbl)

\* the method returns to where it was called from
Return(t) ==
    /\ pc' = [pc EXCEPT ![t] = cont[t]]
    /\ cont' = [cont EXCEPT ![t] = "idle"]

\* the table that the save now between its DELETE and its commit deleted
\* from; no rows when no save is there
SaveInFlight ==
    IF \E u \in Threads : pc[u] \in {"save_insert", "save_commit"}
    THEN had[CHOOSE u \in Threads : pc[u] \in {"save_insert", "save_commit"}]
    ELSE <<>>

Stale(o) == [o EXCEPT !.fresh = FALSE]

----------------------------------------------------------------------------
(* AuthManager.save_credentials: connect; DELETE; INSERT; commit; True.    *)
(* sqlite3 opens a transaction before the first DML statement, which takes *)
(* the database's write lock; other connections read the committed table.  *)

\* the DELETE run in autocommit mode: it reaches the committed table at once
SaveDelete_autocommit(t) ==
    /\ pc[t] = "save_delete"
    /\ lock = NoThread
    /\ lock' = t
    /\ auth' = DeleteAll(auth)
    /\ txn' = [txn EXCEPT ![t] = DeleteAll(auth)]
    /\ had' = [had EXCEPT ![t] = auth]
    /\ pc' = [pc EXCEPT ![t] = "save_insert"]
    /\ UNCHANGED <<cont, arg, out, obs, hist>>
    /\ UNCHANGED gate

SaveDelete(t) ==
    /\ pc[t] = "save_delete"
    /\ lock = NoThread
    /\ lock' = t
    /\ txn' = [txn EXCEPT ![t] = DeleteAll(auth)]
    /\ had' = [had EXCEPT ![t] = auth]
    /\ pc' = [pc EXCEPT ![t] = "save_insert"]
    /\ UNCHANGED <<auth, cont, arg, out, obs, hist>>
    /\ UNCHANGED gate

SaveInsert(t) ==
    /\ pc[t] = "save_insert"
    /\ txn' = [txn EXCEPT ![t] = InsertRow(txn[t], arg[t].api_key, arg[t].pin_code)]
    /\ pc' = [pc EXCEPT ![t] = "save_commit"]
    /\ UNCHANGED <<auth, lock, cont, arg, out, had, obs, hist>>
    /\ UNCHANGED gate

\* save_credentials without conn.commit(): close() drops the transaction
SaveCommit_nocommit(t) ==
    /\ pc[t] = "save_commit"
    /\ lock' = NoThread
    /\ txn' = [txn EXCEPT ![t] = <<>>]
    /\ had' = [had EXCEPT ![t] = <<>>]
    /\ out' = [out EXCEPT ![t] = Out("save", TRUE, None, FALSE, "none")]
    /\ hist' = IF Direct(cont[t]) THEN Last2(hist, [op |-> "save", row |-> arg[t]])
                                  ELSE hist
    /\ obs' = Stale(obs)
    /\ arg' = [arg EXCEPT ![t] = NoArg]
    /\ Return(t)
    /\ UNCHANGED auth
    /\ UNCHANGED gate

SaveCommit(t) ==
    /\ pc[t] = "save_commit"
    /\ auth' = txn[t]
    /\ lock' = NoThread
    /\ txn' = [txn EXCEPT ![t] = <<>>]
    /\ had' = [had EXCEPT ![t] = <<>>]
    /\ out' = [out EXCEPT ![t] = Out("save", TRUE, None, FALSE, "none")]
    /\ hist' = IF Direct(cont[t]) THEN Last2(hist, [op |-> "save", row |-> arg[t]])
                                  ELSE hist
    /\ obs' = Stale(obs)
    /\ arg' = [arg EXCEPT ![t] = NoArg]
    /\ Return(t)
    /\ UNCHANGED gate

\* an except branch that commits what the transaction did so far
SaveFail_partial(t) ==
    /\ pc[t] \in {"save_delete", "save_insert", "save_commit"}
    /\ auth' = IF lock = t THEN txn[t] ELSE auth
    /\ lock' = IF lock = t THEN NoThread ELSE lock
    /\ txn' = [txn EXCEPT ![t] = <<>>]
    /\ had' = [had EXCEPT ![t] = <<>>]
    /\ out' = [out EXCEPT ![t] = Out("save", FALSE, None, TRUE, pc[t])]
    /\ arg' = [arg EXCEPT ![t] = NoArg]
    /\ Return(t)
    /\ UNCHANGED <<obs, hist>>
    /\ UNCHANGED gate

\* except Exception: logger.error(...); return False.  The connection is
\* dropped with its transaction open, which rolls the transaction back.
SaveFail(t) ==
    /\ pc[t] \in {"save_delete", "save_insert", "save_commit"}
    /\ lock' = IF lock = t THEN NoThread ELSE lock
    /\ txn' = [txn EXCEPT ![t] = <<>>]
    /\ had' = [had EXCEPT ![t] = <<>>]
    /\ out' = [out EXCEPT ![t] = Out("save", FALSE, None, TRUE, pc[t])]
    /\ arg' = [arg EXCEPT ![t] = NoArg]
    /\ Return(t)
    /\ UNCHANGED <<auth, obs, hist>>
    /\ UNCHANGED gate

----------------------------------------------------------------------------
(* AuthManager.get_credentials *)

Get(t) ==
    /\ pc[t] = "get"
    /\ out' = [out EXCEPT ![t] = Out("get", TRUE, GetResult(auth), FALSE, "none")]
    /\ obs' = IF Direct(cont[t])
              THEN [cred |-> GetResult(auth), logged |-> FALSE,
                    old |-> SaveInFlight, fresh |-> TRUE]
              ELSE obs
    /\ Return(t)
    /\ UNCHANGED <<auth, lock, txn, arg, had, hist>>
    /\ UNCHANGED gate

\* get_credentials without its except: the error leaves the method
GetFail_raise(t) ==
    /\ pc[t] = "get"
    /\ out' = [out EXCEPT ![t] = [Out("get", FALSE, None, FALSE, pc[t])
                                    EXCEPT !.raised = TRUE]]
    /\ obs' = IF Direct(cont[t])
              THEN [cred |-> None, logged |-> TRUE, old |-> SaveInFlight, fresh |-> TRUE]
              ELSE obs
    /\ Return(t)
    /\ UNCHANGED <<auth, lock, txn, arg, had, hist>>
    /\ UNCHANGED gate

\* except Exception: logger.error(...); return None
GetFail(t) ==
    /\ pc[t] = "get"
    /\ out' = [out EXCEPT ![t] = Out("get", FALSE, None, TRUE, pc[t])]
    /\ obs' = IF Direct(cont[t])
              THEN [cred |-> None, logged |-> TRUE, old |-> SaveInFlight, fresh |-> TRUE]
              ELSE obs
    /\ Return(t)
    /\ UNCHANGED <<auth, lock, txn, arg, had, hist>>
    /\ UNCHANGED gate

----------------------------------------------------------------------------
(* AuthManager.clear_credentials: connect; DELETE; commit; True *)

\* a clear whose DELETE removes no row
ClearDelete_keep(t) ==
    /\ pc[t] = "clear_delete"
    /\ lock = NoThread
    /\ lock' = t
    /\ txn' = [txn EXCEPT ![t] = auth]
    /\ pc' = [pc EXCEPT ![t] = "clear_commit"]
    /\ UNCHANGED <<auth, cont, arg, out, had, obs, hist>>
    /\ UNCHANGED gate

ClearDelete(t) ==
    /\ pc[t] = "clear_delete"
    /\ lock = NoThread
    /\ lock' = t
    /\ txn' = [txn EXCEPT ![t] = DeleteAll(auth)]
    /\ pc' = [pc EXCEPT ![t] = "clear_commit"]
    /\ UNCHANGED <<auth, cont, arg, out, had, obs, hist>>
    /\ UNCHANGED gate

\* clear_credentials returning cursor.rowcount > 0
ClearCommit_rowcount(t) ==
    /\ pc[t] = "clear_commit"
    /\ auth' = txn[t]
    /\ lock' = NoThread
    /\ txn' = [txn EXCEPT ![t] = <<>>]
    /\ out' = [out EXCEPT ![t] = Out("clear", auth # <<>>, None, FALSE, "none")]
    /\ hist' = IF Direct(cont[t]) THEN Last2(hist, [op |-> "clear", row |-> NoArg])
                                  ELSE hist
    /\ obs' = Stale(obs)
    /\ Return(t)
    /\ UNCHANGED <<arg, had>>
    /\ UNCHANGED gate

ClearCommit(t) ==
    /\ pc[t] = "clear_commit"
    /\ auth' = txn[t]
    /\ lock' = NoThread
    /\ txn' = [txn EXCEPT ![t] = <<>>]
    /\ out' = [out EXCEPT ![t] = Out("clear", TRUE, None, FALSE, "none")]
    /\ hist' = IF Direct(cont[t]) THEN Last2(hist, [op |-> "clear", row |-> NoArg])
                                  ELSE hist
    /\ obs' = Stale(obs)
    /\ Return(t)
    /\ UNCHANGED <<arg, had>>
    /\ UNCHANGED gate

ClearFail(t) ==
    /\ pc[t] \in {"clear_delete", "clear_commit"}
    /\ lock' = IF lock = t THEN NoThread ELSE lock
    /\ txn' = [txn EXCEPT ![t] = <<>>]
    /\ out' = [out EXCEPT ![t] = Out("clear", FALSE, None, TRUE, pc[t])]
    /\ Return(t)
    /\ UNCHANGED <<auth, arg, had, obs, hist>>
    /\ UNCHANGED gate

----------------------------------------------------------------------------
(* Callers of AuthManager: any instance on the same database file may call *)
(* any method with any arguments.                                          *)

CallSave(t, k, p) ==
    /\ pc[t] = "idle"
    /\ pc' = [pc EXCEPT ![t] = "save_delete"]
    /\ cont' = [cont EXCEPT ![t] = "idle"]
    /\ arg' = [arg EXCEPT ![t] = Row(k, p)]
    /\ out' = [out EXCEPT ![t] = NoOut]
    /\ UNCHANGED <<auth, lock, txn, had, obs, hist>>
    /\ UNCHANGED gate

CallGet(t) ==
    /\ pc[t] = "idle"
    /\ pc' = [pc EXCEPT ![t] = "get"]
    /\ cont' = [cont EXCEPT ![t] = "idle"]
    /\ out' = [out EXCEPT ![t] = NoOut]
    /\ UNCHANGED <<auth, lock, txn, arg, had, obs, hist>>
    /\ UNCHANGED gate

CallClear(t) ==
    /\ pc[t] = "idle"
    /\ pc' = [pc EXCEPT ![t] = "clear_delete"]
    /\ cont' = [cont EXCEPT ![t] = "idle"]
    /\ out' = [out EXCEPT ![t] = NoOut]
    /\ UNCHANGED <<auth, lock, txn, arg, had, obs, hist>>
    /\ UNCHANGED gate

----------------------------------------------------------------------------
(* AuthManager.generate_pin and validate_pin *)

PinWidth == 4

Digits == {"0", "1", "2", "3", "4", "5", "6", "7", "8", "9"}

\* four characters, each a decimal digit
IsPin4(s) == Len(s) = PinWidth /\ \A i \in 1..Len(s) : s[i] \in Digits

Digit(d) == CASE d = 0 -> "0" [] d = 1 -> "1" [] d = 2 -> "2" [] d = 3 -> "3"
              [] d = 4 -> "4" [] d = 5 -> "5" [] d = 6 -> "6" [] d = 7 -> "7"
              [] d = 8 -> "8" [] d = 9 -> "9"

\* str(n) for n >= 0
RECURSIVE Str(_)
Str(n) == IF n < 10 THEN <<Digit(n)>> ELSE Append(Str(n \div 10), Digit(n % 10))

\* s.ljust(w, "0"): the zeros after the digits
ZFill_right(s, w) == s \o [i \in 1..(w - Len(s)) |-> "0"]

\* s.zfill(w) for s without a sign
RECURSIVE ZFill(_, _)
ZFill(s, w) == IF Len(s) >= w THEN s ELSE ZFill(<<"0">> \o s, w)

\* str(...) without zfill
generate_pin_nofill(n) == Str(n)

\* str(secrets.randbelow(10000)).zfill(4), n being the number drawn
generate_pin(n) == ZFill(Str(n), PinWidth)

\* the numbers secrets.randbelow draws in this model
PinDraws == {7, 1234}

\* validate_pin comparing the PINs as numbers
ValidatePin_numeric(cred, input_pin, n) ==
    cred # None /\ input_pin # <<>> /\ ZFill(input_pin, PinWidth) = ZFill(cred[1].pin_code, PinWidth)

\* validate_pin with the attempts so far as a second argument: a lockout
\* after two wrong PINs
ValidatePin_lockout(cred, input_pin, n) ==
    cred # None /\ n < 2 /\ input_pin = cred[1].pin_code

\* validate_pin, cred being what its own get_credentials returned; the code
\* keeps no count of attempts, n is not read
ValidatePin(cred, input_pin, n) == cred # None /\ input_pin = cred[1].pin_code

----------------------------------------------------------------------------
(* generate_pin over all the numbers it can draw *)

\* secrets.randbelow(10000) draws from 0 .. 9999
PinRange == 10000

NoDraw == -1

Draw(n) ==
    /\ drawn = NoDraw
    /\ drawn' = n
    /\ UNCHANGED <<pin, metrics_history, samples, errors, clock,
                   last_balance_notification, alerts, balance_log>>
    /\ UNCHANGED <<store, window>>

GeneratePin ==
    /\ drawn # NoDraw
    /\ pin = <<>>
    /\ pin' = generate_pin(drawn)
    /\ UNCHANGED <<drawn, metrics_history, samples, errors, clock,
                   last_balance_notification, alerts, balance_log>>
    /\ UNCHANGED <<store, window>>

PinNext == (\E n \in 0..(PinRange - 1) : Draw(n)) \/ GeneratePin

----------------------------------------------------------------------------
(* PerformanceMonitor: the history of metrics and the balance alerts *)

\* line 229: time.time() when the monitor is built, seconds since the epoch
StartTime == 1700000000

\* last_balance_notification = None
NoTime == 0

UtilInit ==
    /\ drawn = NoDraw
    /\ pin = <<>>
    /\ metrics_history = <<>>
    /\ samples = 0
    /\ errors = 0
    /\ clock = StartTime
    /\ last_balance_notification = NoTime
    /\ alerts = <<>>
    /\ balance_log = "none"

\* line 82: the history keeps the last 1000 entries
MaxHistory == 1000

\* samples taken and errors met up to here
MaxSamples == 1003
MaxErrors == 2

\* pop() in the place of pop(0): the newest entry goes
Trimmed_newest(h) == IF Len(h) > MaxHistory THEN SubSeq(h, 1, Len(h) - 1) ELSE h

\* lines 82-83: if len(self.metrics_history) > 1000: self.metrics_history.pop(0)
Trimmed(h) == IF Len(h) > MaxHistory THEN Tail(h) ELSE h

\* the monitor as get_metrics reads and writes it
Monitor == [history |-> metrics_history, samples |-> samples, errors |-> errors]

\* get_metrics, lines 68-92: the sample is built, appended and the history
\* trimmed; when building it raises, the error dict is returned and the
\* history is left alone.  A sample is named by its ordinal.
Sampled(m, ok) ==
    IF ok THEN [history |-> Trimmed(Append(m.history, m.samples + 1)),
                samples |-> m.samples + 1,
                errors |-> m.errors]
    ELSE [m EXCEPT !.errors = m.errors + 1]

SetMonitor(m) ==
    /\ m.samples <= MaxSamples
    /\ m.errors <= MaxErrors
    /\ metrics_history' = m.history
    /\ samples' = m.samples
    /\ errors' = m.errors
    /\ UNCHANGED <<drawn, pin, clock, last_balance_notification, alerts, balance_log>>
    /\ UNCHANGED <<store, window>>

\* get_metrics()
GetMetrics(ok) == SetMonitor(Sampled(Monitor, ok))

\* check_health(), line 107: metrics = self.get_metrics(); the rest reads
CheckHealth(ok) == SetMonitor(Sampled(Monitor, ok))

\* log_metrics(), lines 180-181: get_metrics() and then check_health()
LogMetrics(ok1, ok2) == SetMonitor(Sampled(Sampled(Monitor, ok1), ok2))

\* line 46: self.notification_cooldown = 3600
notification_cooldown == 3600

\* line 222: balance_threshold = 1.0, money being counted in hundredths
balance_threshold == 100

\* what get_current_balance returns in this model, in hundredths
Balances == {0, 99, 100, 250}

\* seconds that pass between two readings of the clock: the loop sleeps 300
\* and a call takes its time
Steps == {300, 3299, 3300}

\* seconds of running time looked at
MaxElapsed == 7500

\* time passes
Tick(d) ==
    /\ clock + d <= StartTime + MaxElapsed
    /\ clock' = clock + d
    /\ UNCHANGED <<drawn, pin, metrics_history, samples, errors,
                   last_balance_notification, alerts, balance_log>>
    /\ UNCHANGED <<store, window>>

\* a check that notifies whatever the time of the last alert
ShouldNotify_always(last, now) == TRUE

\* lines 230-236: should_notify stays True unless a time is recorded and
\* less than the cooldown has passed since
ShouldNotify(last, now) == ~(last # NoTime /\ now - last < notification_cooldown)

\* check_balance_and_notify, lines 220-249, b being what get_current_balance
\* returns unless it raises
CheckBalance(b, raises) ==
    /\ IF raises
       THEN /\ balance_log' = "error"
            /\ UNCHANGED <<last_balance_notification, alerts>>
       ELSE IF b < balance_threshold
       THEN IF ShouldNotify(last_balance_notification, clock)
            THEN /\ alerts' = Last2(alerts, [at |-> clock, balance |-> b])
                 /\ last_balance_notification' = clock
                 /\ balance_log' = "sent"
            ELSE /\ balance_log' = "cooldown"
                 /\ UNCHANGED <<last_balance_notification, alerts>>
       ELSE /\ balance_log' = "sufficient"
            /\ UNCHANGED <<last_balance_notification, alerts>>
    /\ UNCHANGED <<drawn, pin, metrics_history, samples, errors, clock>>
    /\ UNCHANGED <<store, window>>

BalanceNext ==
    \/ \E d \in Steps : Tick(d)
    \/ \E b \in Balances, raises \in BOOLEAN : CheckBalance(b, raises)

MonitorNext ==
    \/ \E ok \in BOOLEAN : GetMetrics(ok)
    \/ \E ok \in BOOLEAN : CheckHealth(ok)
    \/ \E ok1, ok2 \in BOOLEAN : LogMetrics(ok1, ok2)

----------------------------------------------------------------------------
(* AuthWindow.handle_submit, ChatApp.show_auth_window, handle_auth_success *)

Msg(m) == [msg |-> m, pin |-> <<>>]
\* the message of line 124 without the PIN in it
PinMsg_hidden(p) == Msg("pin_generated")

PinMsg(p) == [msg |-> "pin_generated", pin |-> p]

\* what the user has typed into api_key_input and pin_input (max_length 4)
KeyInputs == {<<>>, <<" ">>, <<" ", "b">>, <<"a">>}
PinInputs == {<<>>, <<" ">>, <<"7">>, <<"0", "0", "0", "7">>, <<"1", "2", "3", "4">>}

NoLoc == [api_key |-> <<>>, pin |-> <<>>, stored |-> None, pin_code |-> <<>>]

NoDone == [how |-> "none", api_key |-> <<>>, wiped |-> <<>>]

\* handle_submit of t returns by the way named how
Returned(t, how) == done' = [done EXCEPT !.how = how, !.api_key = loc[t].api_key]

GateInit ==
    /\ page = "auth"
    /\ status = Msg("")
    /\ is_authenticated = FALSE
    /\ api_client = None
    /\ loc = [t \in Handlers |-> NoLoc]
    /\ loop = NoThread
    /\ stale = {}
    /\ alone = FALSE
    /\ fails = 0
    /\ done = NoDone
    /\ UtilInit

Idle(t) == pc' = [pc EXCEPT ![t] = "idle"]

\* t calls a method of its AuthManager and goes on at c when it returns
Call(t, m, c) ==
    /\ pc' = [pc EXCEPT ![t] = m]
    /\ cont' = [cont EXCEPT ![t] = c]

AllIdle == \A v \in Threads : pc[v] = "idle"

\* self.status_text.value = ...; the text of a replaced window is not shown
SetStatus(t, st) == status' = IF t \in stale THEN status ELSE st

\* on_auth_success -> handle_auth_success: init_after_auth builds the client
\* with api_key and sets is_authenticated, main_ui replaces the page
AuthSuccess(key) ==
    /\ api_client' = Some(key)
    /\ is_authenticated' = TRUE
    /\ page' = "main"

\* the gate state of the specification, which the code does not store: it
\* follows from the flag and from what the table holds
GateState ==
    IF is_authenticated THEN "Authenticated"
    ELSE IF auth # <<>> THEN "AwaitingPin" ELSE "NoCredentials"

\* the key of the record that a reset has just deleted, when that reset ran
\* with no handler beside it and nothing has been started since
Wiped == IF done.how = "reset_ok" /\ alone /\ AllIdle THEN done.api_key ELSE <<>>

\* each click starts a coroutine; which of the free ones is the same thing
Before(u, t) == u = "t1" /\ t = "t2"

\* lines 89-98: the click on submit_button; strip both fields; nothing
\* entered is reported at once, else get_credentials is called
Submit(t, kf, pf) ==
    /\ page = "auth"
    /\ loop = NoThread
    /\ pc[t] = "idle"
    /\ \A u \in Handlers : Before(u, t) => pc[u] # "idle"
    /\ stale' = stale \ {t}
    /\ alone' = AllIdle
    /\ IF Strip(kf) = <<>> /\ Strip(pf) = <<>>
       THEN /\ status' = Msg("enter_key_or_pin")
            /\ done' = [NoDone EXCEPT !.how = "nothing_entered", !.wiped = Wiped]
            /\ UNCHANGED <<pc, cont, loop, loc>>
       ELSE /\ loc' = [loc EXCEPT ![t] = [NoLoc EXCEPT !.api_key = Strip(kf),
                                                        !.pin = Strip(pf)]]
            /\ Call(t, "get", "hs_stored")
            /\ loop' = t
            /\ done' = [NoDone EXCEPT !.wiped = Wiped]
            /\ UNCHANGED status
    /\ UNCHANGED <<auth, lock, txn, arg, out, had, obs, hist>>
    /\ UNCHANGED <<page, is_authenticated, api_client, fails>>
    /\ UNCHANGED util

\* a check of the key that lets every key through
KeyMissing_never(api_key) == FALSE

\* line 113: not api_key
KeyMissing(api_key) == api_key = <<>>

\* lines 98-123: stored_credentials is back; a stored record asks for the
\* PIN check, none asks for a key, generates a PIN and saves
HsStored(t) ==
    /\ pc[t] = "hs_stored"
    /\ IF out[t].cred # None
       THEN /\ loc' = [loc EXCEPT ![t].stored = out[t].cred]
            /\ Call(t, "get", "hs_validated")
            /\ UNCHANGED <<status, loop, arg, done>>
       ELSE IF KeyMissing(loc[t].api_key)
       THEN /\ SetStatus(t, Msg("enter_key"))
            /\ Returned(t, "enter_key")
            /\ loc' = [loc EXCEPT ![t] = NoLoc]
            /\ Idle(t)
            /\ loop' = NoThread
            /\ UNCHANGED <<cont, arg>>
       ELSE \E n \in PinDraws :
            /\ loc' = [loc EXCEPT ![t].pin = <<>>, ![t].pin_code = generate_pin(n)]
            /\ arg' = [arg EXCEPT ![t] = Row(loc[t].api_key, generate_pin(n))]
            /\ Call(t, "save_delete", "hs_saved")
            /\ UNCHANGED <<status, loop, done>>
    /\ out' = [out EXCEPT ![t] = NoOut]
    /\ UNCHANGED <<auth, lock, txn, had, obs, hist>>
    /\ UNCHANGED <<page, is_authenticated, api_client, stale, alone, fails>>
    /\ UNCHANGED util

Bump(n) == n + 1

\* on_auth_success(api_key) with the key typed into the field
SessionKey_typed(stored, api_key) == api_key

\* line 105: on_auth_success(stored_credentials[0])
SessionKey(stored, api_key) == stored[1].api_key

\* lines 102-110: validate_pin is back
HsValidated(t) ==
    /\ pc[t] = "hs_validated"
    /\ IF ValidatePin(out[t].cred, loc[t].pin, fails)
       THEN /\ AuthSuccess(SessionKey(loc[t].stored, loc[t].api_key))
            /\ Returned(t, "pin_ok")
            /\ UNCHANGED <<status, fails>>
       ELSE /\ SetStatus(t, Msg("invalid_pin"))
            /\ fails' = IF fails < MaxAttempts THEN Bump(fails) ELSE fails
            /\ Returned(t, "invalid_pin")
            /\ UNCHANGED <<page, is_authenticated, api_client>>
    /\ loc' = [loc EXCEPT ![t] = NoLoc]
    /\ out' = [out EXCEPT ![t] = NoOut]
    /\ Idle(t)
    /\ loop' = NoThread
    /\ UNCHANGED <<auth, lock, txn, cont, arg, had, obs, hist>>
    /\ UNCHANGED <<stale, alone>>
    /\ UNCHANGED util

\* the result of save_credentials not looked at
SaveSucceeded_unchecked(o) == TRUE

\* line 123: if self.auth_manager.save_credentials(api_key, pin_code)
SaveSucceeded(o) == o.ok

\* lines 123-135: save_credentials is back; show the PIN and await the
\* update, or report the failure
HsSaved(t) ==
    /\ pc[t] = "hs_saved"
    /\ IF SaveSucceeded(out[t])
       THEN /\ SetStatus(t, PinMsg(loc[t].pin_code))
            /\ pc' = [pc EXCEPT ![t] = "hs_await_update"]
            /\ UNCHANGED <<loc, done>>
       ELSE /\ SetStatus(t, Msg("save_error"))
            /\ Returned(t, "save_error")
            /\ loc' = [loc EXCEPT ![t] = NoLoc]
            /\ Idle(t)
    /\ out' = [out EXCEPT ![t] = NoOut]
    /\ loop' = NoThread
    /\ UNCHANGED <<auth, lock, txn, cont, arg, had, obs, hist>>
    /\ UNCHANGED <<page, is_authenticated, api_client, stale, alone, fails>>
    /\ UNCHANGED util

\* lines 128-132: update_async is done; enter with the key typed
HsAfterUpdate(t) ==
    /\ pc[t] = "hs_await_update"
    /\ loop = NoThread
    /\ AuthSuccess(loc[t].api_key)
    /\ Returned(t, "first_ok")
    /\ loc' = [loc EXCEPT ![t] = NoLoc]
    /\ Idle(t)
    /\ UNCHANGED <<auth, lock, txn, cont, arg, out, had, obs, hist>>
    /\ UNCHANGED <<status, loop, stale, alone, fails>>
    /\ UNCHANGED util

\* the key of the row the table holds, if it holds one
StoredKey(rows) == IF rows = <<>> THEN <<>> ELSE SelectLast(rows)[1].api_key

\* handle_reset -> on_reset_requested: clear_credentials() is called
\* a reset control on the main UI as well
ResetOffered_always == TRUE

\* reset_button is a control of the AuthWindow; main_ui cleans the page and
\* adds the chat column, whose buttons save, clear the chat, send and show
\* the analytics
ResetOffered == page = "auth"

ResetClick ==
    /\ ResetOffered
    /\ pc[Resetter] = "idle"
    /\ Call(Resetter, "clear_delete", "rs_cleared")
    /\ alone' = AllIdle
    /\ done' = [NoDone EXCEPT !.how = "reset", !.api_key = StoredKey(auth)]
    /\ UNCHANGED <<auth, lock, txn, arg, out, had, obs, hist>>
    /\ UNCHANGED <<page, status, is_authenticated, api_client, loc, loop, stale, fails>>
    /\ UNCHANGED util

\* on_reset_requested, line 69: whatever clear returned, a new AuthWindow
\* replaces the page and show() asks get_credentials where to put the focus
RsCleared ==
    /\ pc[Resetter] = "rs_cleared"
    /\ page' = "auth"
    /\ status' = Msg("")
    /\ stale' = stale \cup {t \in Handlers : pc[t] # "idle"}
    /\ fails' = 0
    /\ Call(Resetter, "get", "rs_shown")
    /\ done' = [done EXCEPT !.how = IF out[Resetter].ok THEN "reset_ok" ELSE "reset_failed"]
    /\ out' = [out EXCEPT ![Resetter] = NoOut]
    /\ UNCHANGED <<auth, lock, txn, arg, had, obs, hist>>
    /\ UNCHANGED <<is_authenticated, api_client, loc, loop, alone>>
    /\ UNCHANGED util

\* AuthWindow.show, lines 151-155: focus the PIN field or the key field
RsShown ==
    /\ pc[Resetter] = "rs_shown"
    /\ Idle(Resetter)
    /\ out' = [out EXCEPT ![Resetter] = NoOut]
    /\ UNCHANGED <<auth, lock, txn, cont, arg, had, obs, hist>>
    /\ UNCHANGED gate

----------------------------------------------------------------------------
(* The store on its own: init_db has run (CREATE TABLE IF NOT EXISTS); the  *)
(* file is new, or was left by an earlier run with its one row.            *)

InitRows == {<<>>, <<Row(<<"a">>, <<"1", "2", "3", "4">>)>>}

StoreInit ==
    /\ auth \in InitRows
    /\ lock = NoThread
    /\ txn = [t \in Threads |-> <<>>]
    /\ pc = [t \in Threads |-> "idle"]
    /\ cont = [t \in Threads |-> "idle"]
    /\ arg = [t \in Threads |-> NoArg]
    /\ out = [t \in Threads |-> NoOut]
    /\ had = [t \in Threads |-> <<>>]
    /\ obs = NoObs
    /\ hist = <<>>
    /\ GateInit

StoreStep(t) ==
    \/ SaveDelete(t)
    \/ SaveInsert(t)
    \/ SaveCommit(t)
    \/ SaveFail(t)
    \/ Get(t)
    \/ GetFail(t)
    \/ ClearDelete(t)
    \/ ClearCommit(t)
    \/ ClearFail(t)

StoreNext ==
    \E t \in Handlers :
        \/ \E k \in StoreKeys, p \in StorePins : CallSave(t, k, p)
        \/ CallGet(t)
        \/ CallClear(t)
        \/ StoreStep(t)

StoreSpec == StoreInit /\ [][StoreNext]_vars

----------------------------------------------------------------------------
(* The application: the AuthWindow is on the page; the user clicks submit  *)
(* and reset; handle_submit coroutines share the event loop and            *)
(* handle_reset runs beside them.                                          *)

Init == StoreInit

HandlerStep(t) ==
    \/ \E kf \in KeyInputs, pf \in PinInputs : Submit(t, kf, pf)
    \/ HsStored(t)
    \/ HsValidated(t)
    \/ HsSaved(t)
    \/ HsAfterUpdate(t)
    \/ Get(t)
    \/ GetFail(t)
    \/ SaveDelete(t)
    \/ SaveInsert(t)
    \/ SaveCommit(t)
    \/ SaveFail(t)

ResetStep ==
    \/ ResetClick
    \/ ClearDelete(Resetter)
    \/ ClearCommit(Resetter)
    \/ ClearFail(Resetter)
    \/ RsCleared
    \/ Get(Resetter)
    \/ GetFail(Resetter)
    \/ RsShown

Next == (\E t \in Handlers : HandlerStep(t)) \/ ResetStep

Spec == Init /\ [][Next]_vars

\* generate_pin on its own
PinSpec == Init /\ [][PinNext]_vars

\* check_balance_and_notify called again and again as time passes
BalanceSpec == Init /\ [][BalanceNext]_vars

\* the calls that sample metrics, in any order
MonitorSpec == Init /\ [][MonitorNext]_vars

----------------------------------------------------------------------------
(* Properties of the gate *)

\* t's handle_submit takes its last step of the PIN check
Decides(t) == pc[t] = "hs_validated" /\ pc'[t] = "idle"

\* the record (s, p) that t read at line 98 is the one validate_pin read
SameRecord(t) == loc[t].stored # None /\ out[t].cred = loc[t].stored

\* C7: a handle_submit that found no stored record and was given a key that
\* is not empty generates a 4-digit PIN and saves (key, PIN); when it runs
\* with nothing else running and the save succeeds, it shows that PIN, the
\* gate becomes Authenticated with the key submitted, and the table holds
\* the one row (key, PIN shown).
C7_FirstTimeSubmit ==
    [][\A t \in Handlers :
         /\ (pc[t] = "hs_stored" /\ pc'[t] # pc[t] /\ out[t].cred = None
              /\ loc[t].api_key # <<>>)
                => /\ pc'[t] = "save_delete"
                   /\ arg'[t].api_key = loc[t].api_key
                   /\ IsPin4(arg'[t].pin_code)
                   /\ loc'[t].pin_code = arg'[t].pin_code
         /\ (pc[t] = "hs_await_update" /\ pc'[t] = "idle" /\ alone)
                => /\ loc[t].api_key # <<>>
                   /\ is_authenticated' /\ GateState' = "Authenticated"
                   /\ api_client' = Some(loc[t].api_key)
                   /\ status' = PinMsg(loc[t].pin_code)
                   /\ IsPin4(status'.pin)
                   /\ auth' = <<Row(loc[t].api_key, loc[t].pin_code)>>]_vars

\* a first-time submission has run alone: the PIN shown is 0007, the gate is
\* authenticated with the key typed and the row (key, 0007) is stored
C7_Witness ==
    /\ alone /\ AllIdle /\ done.how = "first_ok"
    /\ is_authenticated /\ api_client = Some(done.api_key)
    /\ status = PinMsg(<<"0", "0", "0", "7">>)
    /\ auth = <<Row(done.api_key, status.pin)>>

\* C8: with a record (s, p) stored, a handle_submit given a PIN q that is
\* not empty and not equal to p as a string sets the status to the invalid
\* PIN message, leaves the flag, the client, the page and the table as they
\* were, and the gate stays in AwaitingPin; its reads do not change the
\* table either.
C8_WrongPinRejected ==
    [][\A t \in Handlers :
         /\ (Decides(t) /\ SameRecord(t) /\ loc[t].pin # <<>>
              /\ loc[t].pin # loc[t].stored[1].pin_code)
                => /\ (t \notin stale => status' = Msg("invalid_pin"))
                   /\ is_authenticated' = is_authenticated
                   /\ api_client' = api_client
                   /\ page' = page
                   /\ auth' = auth
                   /\ (GateState = "AwaitingPin" => GateState' = "AwaitingPin")
         /\ (pc[t] = "get" /\ pc'[t] # "get") => auth' = auth]_vars

\* a wrong PIN has been rejected in a run of its own: the message is up,
\* the record is stored and the gate awaits the PIN
C8_Witness ==
    /\ alone /\ AllIdle /\ done.how = "invalid_pin"
    /\ status = Msg("invalid_pin")
    /\ auth # <<>> /\ GateState = "AwaitingPin"

\* C9: with a record (s, p) stored, a handle_submit given a PIN equal to p
\* as a string makes the gate Authenticated and builds the client with the
\* stored s, whatever the key field holds; the table is left as it was.
C9_RightPinAuthenticates ==
    [][\A t \in Handlers :
         (Decides(t) /\ SameRecord(t) /\ loc[t].pin = loc[t].stored[1].pin_code)
            => /\ is_authenticated' /\ GateState' = "Authenticated"
               /\ api_client' = Some(loc[t].stored[1].api_key)
               /\ page' = "main"
               /\ auth' = auth]_vars

\* the right PIN was given with another key typed into the key field, and
\* the client holds the stored key
C9_Witness ==
    /\ done.how = "pin_ok" /\ done.api_key # <<>>
    /\ is_authenticated /\ auth # <<>>
    /\ api_client = Some(auth[1].api_key)
    /\ done.api_key # auth[1].api_key

\* C10: a rejected PIN changes nothing that a later attempt reads: not the
\* table, the flag, the client or the page, and the handler is back at rest
\* with the loop free; and after any number of rejected PINs an attempt
\* with the stored p authenticates and yields the stored s.
C10_NoLockout ==
    [][\A t \in Handlers :
         /\ (Decides(t) /\ ~is_authenticated')
                => /\ auth' = auth /\ lock' = lock
                   /\ page' = page /\ api_client' = api_client
                   /\ is_authenticated' = is_authenticated
                   /\ loc'[t] = NoLoc /\ loop' = NoThread
         /\ (Decides(t) /\ SameRecord(t) /\ fails > 0
              /\ loc[t].pin = loc[t].stored[1].pin_code)
                => /\ is_authenticated'
                   /\ api_client' = Some(loc[t].stored[1].api_key)]_vars

\* the stored PIN was accepted after as many rejected PINs as are counted
C10_Witness ==
    /\ done.how = "pin_ok" /\ fails = MaxAttempts
    /\ is_authenticated /\ auth # <<>>
    /\ api_client = Some(auth[1].api_key)

\* the messages that tell the user that a field was left empty (lines 93
\* and 114)
EmptyMsgs == {Msg("enter_key_or_pin"), Msg("enter_key")}

\* t's handle_submit returns from the branch that found no stored record
\* and no key
RejectsKey(t) ==
    pc[t] = "hs_stored" /\ pc'[t] # pc[t] /\ out[t].cred = None /\ loc[t].api_key = <<>>

\* a handle_submit returns at line 95: both fields were empty after strip()
NothingEntered == pc' = pc /\ done'.how = "nothing_entered"

\* C11: with no record stored, a handle_submit whose key field is empty
\* after strip() reports an empty field, whatever the PIN field holds: it
\* returns without generating a PIN and without calling save, the table
\* stays empty and the gate stays in NoCredentials.
C11_EmptySecretRejected ==
    [][\A t \in Handlers :
         /\ (NothingEntered /\ auth = <<>> /\ ~is_authenticated)
            => /\ status' \in EmptyMsgs
               /\ arg' = arg /\ auth' = <<>>
               /\ GateState' = "NoCredentials"
         /\ (RejectsKey(t) /\ auth = <<>> /\ ~is_authenticated)
            => /\ pc'[t] = "idle"
               /\ (t \notin stale => status' \in EmptyMsgs)
               /\ (t \in stale => status' = status)
               /\ arg' = arg /\ loc'[t].pin_code = <<>>
               /\ auth' = <<>> /\ lock' = lock /\ txn' = txn
               /\ GateState' = "NoCredentials"
               /\ api_client' = api_client]_vars

\* a submission with no key and a PIN typed was rejected in a run of its
\* own on an empty table
C11_Witness ==
    /\ alone /\ AllIdle /\ done.how = "enter_key"
    /\ status = Msg("enter_key")
    /\ auth = <<>> /\ GateState = "NoCredentials" /\ api_client = None
    /\ hist = <<>>

\* C12: with a record stored, a handle_submit whose PIN field is empty after
\* strip() reports an empty field and not the invalid PIN message, whatever
\* the key field holds, and the gate stays in AwaitingPin.
C12_EmptyPinRejected ==
    [][\A t \in Handlers :
         (Decides(t) /\ SameRecord(t) /\ loc[t].pin = <<>> /\ t \notin stale)
            => /\ status' \in EmptyMsgs
               /\ status' # Msg("invalid_pin")
               /\ auth' = auth
               /\ (GateState = "AwaitingPin" => GateState' = "AwaitingPin")]_vars

\* t's handle_submit goes past line 95 and calls get_credentials
StartsLoad(t) == pc[t] = "idle" /\ pc'[t] = "get"

\* C13: a handle_submit whose PIN field is empty after strip() while a
\* record is stored, or whose key field is empty while none is stored, is
\* rejected without a call to the store: no get, no save and no clear runs
\* for it and the table is left as it was.
C13_EmptyTouchesNoStorage ==
    [][\A t \in Handlers :
         /\ NothingEntered
              => /\ auth' = auth /\ lock' = lock /\ txn' = txn /\ out' = out
                 /\ status' \in EmptyMsgs
         /\ (StartsLoad(t) /\ GateState = "AwaitingPin") => loc'[t].pin # <<>>
         /\ (StartsLoad(t) /\ GateState = "NoCredentials") => loc'[t].api_key # <<>>]_vars

\* the message that tells the user that no credentials are stored (line 114)
NoCredentialsMsg == Msg("enter_key")

\* C14: a handle_submit given a PIN whose read of the table finds no row
\* (the table was emptied by someone else) reports that no credentials are
\* stored and not an invalid PIN, and the gate is in NoCredentials; so too
\* when the row was there at line 98 and is gone when validate_pin reads.
C14_WipedStoreReported ==
    [][\A t \in Handlers :
         /\ (RejectsKey(t) /\ ~out[t].logged /\ loc[t].pin # <<>> /\ t \notin stale)
              => status' = NoCredentialsMsg
         /\ (Decides(t) /\ loc[t].stored # None /\ out[t].cred = None
              /\ ~out[t].logged /\ loc[t].pin # <<>> /\ t \notin stale)
              => /\ status' = NoCredentialsMsg
                 /\ status' # Msg("invalid_pin")]_vars

\* the message that reports a storage failure (line 134)
PersistenceMsg == Msg("save_error")

\* C15: when the save_credentials of a first-time handle_submit returns
\* False, the handler reports the storage failure and returns: no PIN is
\* shown, on_auth_success is not called, the save has left the table as it
\* was when its DELETE ran, and a gate in NoCredentials stays there.
C15_FailedSaveReported ==
    [][\A t \in Handlers :
         (pc[t] = "hs_saved" /\ pc'[t] # pc[t] /\ ~out[t].ok)
            => /\ pc'[t] = "idle"
               /\ (t \notin stale => status' = PersistenceMsg)
               /\ (t \in stale => status' = status)
               /\ status'.msg # "pin_generated"
               /\ is_authenticated' = is_authenticated
               /\ api_client' = api_client /\ page' = page
               /\ auth' = auth
               /\ (GateState = "NoCredentials" => GateState' = "NoCredentials")]_vars

\* a first-time submission whose save failed has run alone: the failure
\* is reported, nothing is stored and the gate has not let the user in
C15_Witness ==
    /\ alone /\ AllIdle /\ done.how = "save_error" /\ done.api_key # <<>>
    /\ status = PersistenceMsg
    /\ auth = <<>> /\ GateState = "NoCredentials" /\ api_client = None

\* the reset's clear_credentials returns True
ClearDone == pc[Resetter] = "clear_commit" /\ pc'[Resetter] = "rs_cleared" /\ out'[Resetter].ok

\* on_reset_requested puts up the new window after a clear that returned
\* True, no handle_submit being at work since the click
QuietReset ==
    /\ pc[Resetter] = "rs_cleared" /\ pc'[Resetter] # pc[Resetter]
    /\ out[Resetter].ok /\ alone

\* C16: a reset whose clear succeeds leaves the table empty, so that a load
\* finds no record; when it ran with no handler beside it and the user was
\* not yet let in, the gate is in NoCredentials behind a new window.  The
\* handle_submit that follows it with a key finds no record, draws a PIN
\* anew, saves (key, PIN), and ends with exactly that pair stored.
C16_ResetThenFirstTime ==
    [][/\ ClearDone => (auth' = <<>> /\ GetResult(auth') = None)
       /\ (QuietReset /\ ~is_authenticated)
            => /\ auth = <<>> /\ auth' = <<>>
               /\ GateState' = "NoCredentials"
               /\ page' = "auth" /\ status' = Msg("")
               /\ done'.how = "reset_ok"
       /\ \A t \in Handlers :
            /\ (StartsLoad(t) /\ done.how = "reset_ok" /\ alone /\ AllIdle)
                 => auth = <<>>
            /\ (pc[t] = "hs_stored" /\ pc'[t] # pc[t] /\ done.wiped # <<>> /\ alone
                 /\ ~out[t].logged /\ loc[t].api_key # <<>>)
                 => /\ out[t].cred = None
                    /\ pc'[t] = "save_delete"
                    /\ \E n \in PinDraws : arg'[t] = Row(loc[t].api_key, generate_pin(n))
            /\ (pc[t] = "hs_await_update" /\ pc'[t] = "idle" /\ done.wiped # <<>> /\ alone)
                 => /\ auth' = <<Row(loc[t].api_key, loc[t].pin_code)>>
                    /\ status' = PinMsg(loc[t].pin_code)]_vars

\* a reset has deleted the record (a, 1234) and the submission after it has
\* stored another key with the PIN 0007 and shown that PIN
C16_Witness ==
    /\ alone /\ AllIdle /\ done.how = "first_ok"
    /\ done.wiped = <<"a">> /\ done.api_key # done.wiped
    /\ auth = <<Row(done.api_key, <<"0", "0", "0", "7">>)>>
    /\ status = PinMsg(<<"0", "0", "0", "7">>)

\* handle_reset starts: on_reset_requested calls clear_credentials
ResetStarts == pc[Resetter] = "idle" /\ pc'[Resetter] = "clear_delete"

C18_FailedClearReported ==
    [][(pc[Resetter] = "rs_cleared" /\ pc'[Resetter] # pc[Resetter] /\ ~out[Resetter].ok)
          => /\ status' = PersistenceMsg
             /\ auth' = auth
             /\ GateState' = GateState]_vars

\* C19: once is_authenticated is set and the main UI is up, no step of a
\* handle_submit, which can only be one begun before that, changes the
\* table, the key the client was built with or the flag.
C19_AuthenticatedTerminal ==
    [][\A t \in Handlers :
         (is_authenticated /\ page = "main" /\ pc'[t] # pc[t])
            => /\ auth' = auth
               /\ api_client' = api_client
               /\ is_authenticated']_vars

\* t's handle_submit sets the status to the PIN message after a save that
\* returned True (line 124)
EmitsPin(t) == pc[t] = "hs_saved" /\ out[t].ok /\ pc'[t] = "hs_await_update"

\* C20: every handle_submit whose save returned True puts the PIN it
\* generated into the status text of its window, once, on the step that
\* follows the save; a status text that shows a PIN is never the work of
\* another step, so that no PIN check, reset or new window shows a stored
\* PIN again.
C20_PinShownOnce ==
    [][/\ \A t \in Handlers :
            EmitsPin(t)
              => /\ IsPin4(loc[t].pin_code) /\ loc'[t].pin_code = loc[t].pin_code
                 /\ (t \notin stale
                       => status' = [msg |-> "pin_generated", pin |-> loc[t].pin_code])
       /\ (status'.pin # <<>> /\ status' # status)
            => \E t \in Handlers : EmitsPin(t) /\ status'.pin = loc[t].pin_code
       /\ (status.pin # <<>> /\ status' # status /\ ~\E t \in Handlers : EmitsPin(t))
            => status'.pin = <<>>]_vars

\* the PIN of the stored record was shown by the handler that saved it, and
\* the wrong PIN given to a second handler since has put its own message in
\* the place of it
C20_Witness ==
    /\ pc["t1"] = "hs_await_update" /\ pc["t2"] = "idle"
    /\ done.how = "invalid_pin"
    /\ status = Msg("invalid_pin")
    /\ auth = <<Row(loc["t1"].api_key, loc["t1"].pin_code)>>

\* a store call of t ends on this step
Returns(t) == pc[t] # "idle" /\ pc'[t] = cont[t] /\ out'[t] # out[t]

\* the step is the end of a call that met a storage error
MetError(t) == Returns(t) /\ (out'[t].logged \/ out'[t].raised)

\* C24: a save, a clear or a get that meets a storage error at any of its
\* statements ends by returning to its caller: nothing is raised, the error
\* is logged, save and clear return False and get returns None.
C24_NoExceptionEscapes ==
    [][\A t \in Threads :
         /\ MetError(t)
              => /\ ~out'[t].raised /\ out'[t].logged
                 /\ ~out'[t].ok
                 /\ out'[t].cred = None
         /\ (pc'[t] # pc[t] /\ pc[t] # "idle" /\ pc'[t] = cont[t]) => ~out'[t].raised]_vars

\* a get and a clear have both met a storage error and returned
C24_Witness ==
    \E t, u \in Threads :
        /\ out[t].op = "get" /\ out[t].logged /\ out[t].cred = None
        /\ out[u].op = "clear" /\ out[u].logged /\ ~out[u].ok
        /\ pc[t] = "idle" /\ pc[u] = "idle"

----------------------------------------------------------------------------
(* Properties of generate_pin and of the monitor *)

\* the digit a character stands for
DigitValue(c) == CHOOSE d \in 0..9 : Digit(d) = c

\* the number a string of digits writes in base ten
RECURSIVE PinValue(_)
PinValue(s) == IF s = <<>> THEN 0
               ELSE 10 * PinValue(SubSeq(s, 1, Len(s) - 1)) + DigitValue(s[Len(s)])

\* C21: for every n that randbelow(10000) can draw, generate_pin returns a
\* string of exactly 4 characters, each a decimal digit, that writes n in
\* base ten with zeros in front.
C21_PinFormat ==
    pin # <<>> => /\ Len(pin) = 4
                  /\ \A i \in 1..Len(pin) : pin[i] \in Digits
                  /\ PinValue(pin) = drawn
                  /\ drawn \in 0..9999

\* 42 was drawn and 0042 returned
C21_Witness == drawn = 42 /\ pin = <<"0", "0", "4", "2">>

\* C28: after any sequence of get_metrics, check_health and log_metrics
\* calls metrics_history holds at most 1000 entries, and they are the last
\* samples taken, in the order they were taken: what was dropped is the
\* oldest.
C28_HistoryBounded ==
    /\ Len(metrics_history) <= 1000
    /\ Len(metrics_history) = IF samples < 1000 THEN samples ELSE 1000
    /\ \A i \in 1..Len(metrics_history) :
          metrics_history[i] = samples - Len(metrics_history) + i

\* 1002 samples have been taken, some calls have failed, and the history
\* begins with the third sample
C28_Witness ==
    /\ samples = 1002 /\ errors > 0
    /\ Len(metrics_history) = 1000
    /\ metrics_history[1] = 3 /\ metrics_history[1000] = 1002

\* an alert is sent on this step
AlertSent == alerts' # alerts

\* C29: an alert is sent only by a check that read a balance below the
\* threshold; two alerts are never less than notification_cooldown = 3600
\* seconds apart by the clock the checks read; and
\* last_balance_notification changes only on a step that sends an alert,
\* to the time of that alert.
C29_AlertCooldown ==
    [][/\ AlertSent
            => /\ alerts'[Len(alerts')].balance < 100
               /\ alerts'[Len(alerts')].at = clock
               /\ balance_log' = "sent"
               /\ (alerts # <<>> => clock - alerts[Len(alerts)].at >= 3600)
       /\ (last_balance_notification' # last_balance_notification)
            => (AlertSent /\ last_balance_notification' = clock)]_vars

\* two alerts were sent exactly 3600 seconds apart and the check after the
\* second was skipped for the cooldown
C29_Witness ==
    /\ Len(alerts) = 2
    /\ alerts[2].at - alerts[1].at = 3600
    /\ balance_log = "cooldown"
    /\ last_balance_notification = alerts[2].at

\* t's handle_submit leaves line 100 with what get_credentials returned
ReadsStore(t) == pc[t] = "hs_stored" /\ pc'[t] # pc[t]

\* C22: what the table holds decides how a submission that runs with
\* nothing beside it is handled: with no
\* row stored the handler takes the first-time branch (with a key it goes
\* on to save), and with a row stored it takes the PIN check and never
\* goes on to save, so that the key field cannot replace the stored row.
C22_StoreDecidesBranch ==
    [][\A t \in Handlers :
         /\ (ReadsStore(t) /\ alone /\ auth = <<>> /\ loc[t].api_key # <<>>)
              => pc'[t] = "save_delete"
         /\ (ReadsStore(t) /\ alone /\ auth # <<>>)
              => (pc'[t] = "get" /\ cont'[t] = "hs_validated" /\ arg' = arg)]_vars

\* C23: while the table holds a row, no step of a handle_submit changes
\* or replaces it, a handler whose get_credentials hit a storage error and
\* returned None included; only a reset removes it.
C23_RecordImmutable ==
    [][\A t \in Handlers :
         (pc'[t] # pc[t] /\ auth # <<>>) => auth' = auth]_vars

\* C25: in every state the handlers and the reset can reach, a row of the
\* table has a non-empty api_key and a pin_code of exactly 4 decimal digits.
C25_RecordWellFormed ==
    \A i \in 1..Len(auth) : auth[i].api_key # <<>> /\ IsPin4(auth[i].pin_code)

\* a first submission saved the stripped key with a zero-padded PIN
C25_Witness ==
    /\ auth = <<Row(<<"b">>, <<"0", "0", "0", "7">>)>>
    /\ done.how = "first_ok"

----------------------------------------------------------------------------
(* Properties of the store *)

SaveStates == {"save_delete", "save_insert", "save_commit"}

IsSave(e) == e.op = "save"
IsClear(e) == e.op = "clear"
LastWrite == hist[Len(hist)]

\* C1: in every reachable state the table auth holds at most one row,
\* whatever saves and clears the AuthManager instances on it have run.
C1_AtMostOneRecord == Len(auth) <= 1

\* two saves of different records have committed one after the other and a
\* row is stored
C1_Witness ==
    /\ Len(hist) = 2 /\ IsSave(hist[1]) /\ IsSave(hist[2])
    /\ hist[1].row # hist[2].row
    /\ Len(auth) = 1

\* C2: a get_credentials that runs without a storage error while a save is
\* between its DELETE and its commit, the table having held a row when the
\* DELETE ran, returns that old row and never None.
C2_NoEmptyWindow ==
    (obs.old # <<>> /\ ~obs.logged) => (obs.cred # None /\ obs.cred = SelectLast(obs.old))

\* a get has run while such a save was in flight
C2_Witness == obs.old # <<>> /\ ~obs.logged /\ obs.cred # None /\ obs.fresh

\* C3: a save that raises at any of its statements returns False, raises
\* nothing to its caller and logs the error, and no step of that save has
\* changed the committed table.
C3_FailedSaveKeepsStore ==
    [][\A t \in Threads :
         (pc[t] \in SaveStates /\ pc'[t] # pc[t] /\ ~(pc[t] = "save_commit" /\ out'[t].ok))
             => /\ auth' = auth
                /\ (pc'[t] \notin SaveStates
                      => ~out'[t].ok /\ ~out'[t].raised /\ out'[t].logged)]_vars

\* a save has failed at its INSERT, after its DELETE ran, and the row is
\* still stored
C3_Witness ==
    \E t \in Threads :
        /\ IsSave(out[t]) /\ ~out[t].ok /\ out[t].at = "save_insert"
        /\ auth # <<>>

\* C4: when the last two committed writes are save(s1,p1) then save(s2,p2),
\* the table holds the one row (s2,p2) and a get that runs without a storage
\* error returns exactly (s2,p2).
C4_ReplaceSemantics ==
    (Len(hist) = 2 /\ IsSave(hist[1]) /\ IsSave(hist[2]))
        => /\ auth = <<hist[2].row>>
           /\ (obs.fresh /\ ~obs.logged) => obs.cred = Some(hist[2].row)

\* a get has returned the second of two different saved records
C4_Witness ==
    /\ Len(hist) = 2 /\ IsSave(hist[1]) /\ IsSave(hist[2])
    /\ hist[1].row.api_key # hist[2].row.api_key
    /\ hist[1].row.pin_code # hist[2].row.pin_code
    /\ obs.fresh /\ ~obs.logged /\ obs.cred = Some(hist[2].row)

\* C5: when the last committed write is save(secret, pin) with secret not
\* empty, a get that runs without a storage error returns a pair whose
\* api_key is secret and whose pin_code is pin, character for character.
C5_RoundTrip ==
    (hist # <<>> /\ IsSave(LastWrite) /\ LastWrite.row.api_key # <<>>
     /\ obs.fresh /\ ~obs.logged)
        => /\ Len(obs.cred) = 1
           /\ obs.cred[1].api_key = LastWrite.row.api_key
           /\ obs.cred[1].pin_code = LastWrite.row.pin_code

\* a get has returned a saved key that ends in a space
C5_Witness ==
    /\ hist # <<>> /\ IsSave(LastWrite)
    /\ LastWrite.row.api_key # Strip(LastWrite.row.api_key)
    /\ obs.fresh /\ ~obs.logged /\ obs.cred = Some(LastWrite.row)

\* C6: a clear that runs without a storage error returns True, on an empty
\* table as on a full one, and while a clear is the last committed write
\* the table is empty: a second clear ends where the first did.
C6_ClearIdempotent ==
    /\ \A t \in Threads : (IsClear(out[t]) /\ ~out[t].logged) => out[t].ok
    /\ (hist # <<>> /\ IsClear(LastWrite)) => auth = <<>>

\* two clears have committed one after the other, the second then on an
\* empty table, and a clear has returned True
C6_Witness ==
    /\ Len(hist) = 2 /\ IsClear(hist[1]) /\ IsClear(hist[2])
    /\ auth = <<>>
    /\ \E t \in Threads : IsClear(out[t]) /\ out[t].ok

ClearStates == {"clear_delete", "clear_commit"}

\* u is inside save_credentials or clear_credentials
Writing(u) == pc[u] \in SaveStates \cup ClearStates

\* C26: the clear of a reset and the save of a submit handler are never
\* both under way, and no thread is inside get_credentials while another
\* thread is inside a save or a clear.
C26_WritesSerialised ==
    /\ \A t \in Handlers : ~(pc[t] \in SaveStates /\ pc[Resetter] \in ClearStates)
    /\ \A t, u \in Threads : (pc[t] = "get" /\ u # t) => ~Writing(u)

\* t's handle_submit calls on_auth_success on this step
Authenticates(t) ==
    /\ pc[t] \in {"hs_validated", "hs_await_update"} /\ pc'[t] = "idle"
    /\ done'.how \in {"pin_ok", "first_ok"}

\* C27: on the step on which a handler calls on_auth_success(key), on the
\* first-time path or on the PIN path, the table holds a row whose api_key
\* is that key, whatever a reset or another handler did in between.
C27_AuthenticatedKeyStored ==
    [][\A t \in Handlers :
         Authenticates(t) => (auth # <<>> /\ api_client' = Some(StoredKey(auth)))]_vars

====
